---- MODULE Spec2Model ----
(***************************************************************************)
(* The Optional iterator of graph/optional_iterator.go: a decorator over   *)
(* one sub-iterator whose Check never rejects a value and which remembers  *)
(* in lastCheck whether the sub-iterator matched.                          *)
(*                                                                         *)
(* The heap holds the Optional nodes (opts) and the sub-iterator nodes     *)
(* (subs); a node is named by its index.  Every method of OptionalIterator *)
(* is an operator that maps the current heap to a record holding the new   *)
(* heap, the returned value, the calls it made on sub-iterators and the    *)
(* lines it wrote to the error log.  The sub-iterator (the Iterator        *)
(* interface) and BaseIterator are not part of optional_iterator.go; they  *)
(* are modelled from the generic iterator contract.                        *)
(***************************************************************************)
EXTENDS Integers, Sequences, FiniteSets, TLC

VARIABLES opts, subs, last, ghost, steps

vars == <<opts, subs, last, ghost, steps>>

\* ------------------------------------------------------------------ bounds
\* sub-iterator nodes on the heap, Optional nodes on the heap, further binding
\* sets per matching value, and Close calls one sub-iterator may receive
MaxSubs == 2
MaxOpts == 2
MaxResults == 1
MaxClose == 1
\* largest indent handed to DebugString
MaxIndent == 1
\* operations in one behaviour
MaxSteps == 5

\* ------------------------------------------------------------- value space
Values == {"A", "B", "C"}
nil == "nil"
NoNode == 0
SubTag == "x"
OptTag == "y"
TagNames == {SubTag, OptTag}
Absent == "absent"
EmptyOut == [t \in TagNames |-> Absent]
\* the output mappings handed to TagResults
Outs == {EmptyOut, [EmptyOut EXCEPT ![SubTag] = "C"]}
\* the sub-iterator wrapped at construction: a membership test over SubSet
\* with SubResults[v] further binding sets for a matching value v
SubSet == {"A", "B"}
SubResults == [v \in SubSet |-> IF v = "A" THEN MaxResults ELSE 0]

\* int64 costs as three limbs of 21 bits, most significant first
Limb == 2097152
Int64(hi, mid, lo) == <<hi, mid, lo>>
Small(n) == Int64(0, 0, n)
MaxInt64 == Int64(Limb - 1, Limb - 1, Limb - 1)
\* a < b
Lt(a, b) ==
    \/ a[1] < b[1]
    \/ a[1] = b[1] /\ a[2] < b[2]
    \/ a[1] = b[1] /\ a[2] = b[2] /\ a[3] < b[3]
\* x << 1 on the 63 value bits
Double(x) ==
    LET lo == 2 * x[3]
        mid == 2 * x[2] + lo \div Limb
        hi == 2 * x[1] + mid \div Limb
    IN Int64(hi % Limb, mid % Limb, lo % Limb)
RECURSIVE Shl(_, _)
\* x << n
Shl(x, n) == IF n = 0 THEN x ELSE Shl(Double(x), n - 1)
ZeroStats == [CheckCost |-> Small(0), NextCost |-> Small(0), Size |-> Small(0)]
\* the statistics a sub-iterator over `set` reports
SubStats(set) ==
    IF "A" \in set
    THEN [CheckCost |-> Small(1), NextCost |-> Small(2), Size |-> Small(2)]
    ELSE [CheckCost |-> Small(3), NextCost |-> Int64(Limb - 1, Limb - 1, Limb - 1), Size |-> Small(1)]

\* ----------------------------------------------- sub-iterator (Iterator)
\* A sub-iterator: a membership test over `set` that binds its tags to the
\* checked value and has results[v] further binding sets for a matching v.
NewSub(set, results) ==
    [set |-> set, results |-> results, stats |-> SubStats(set), tags |-> {SubTag},
     Last |-> nil, remaining |-> 0, closed |-> 0]

SubCheck(ss, s, val) ==
    IF val \in ss[s].set
    THEN [subs |-> [ss EXCEPT ![s].Last = val, ![s].remaining = ss[s].results[val]], ret |-> TRUE]
    ELSE [subs |-> [ss EXCEPT ![s].Last = val], ret |-> FALSE]

SubNextResult(ss, s) ==
    IF ss[s].remaining > 0
    THEN [subs |-> [ss EXCEPT ![s].remaining = ss[s].remaining - 1], ret |-> TRUE]
    ELSE [subs |-> ss, ret |-> FALSE]

SubTagResults(ss, s, out) ==
    [t \in TagNames |-> IF t \in ss[s].tags THEN ss[s].Last ELSE out[t]]

SubReset(ss, s) == [ss EXCEPT ![s].Last = nil, ![s].remaining = 0]

SubClose(ss, s) == [ss EXCEPT ![s].closed = ss[s].closed + 1]

SubClone(ss, s) ==
    [subs |-> Append(ss, NewSub(ss[s].set, ss[s].results)), ret |-> Len(ss) + 1]

\* changed: whether the sub-iterator rewrites itself into a new node;
\* carry: whether the new node takes over the position of the old one.
SubOptimize(ss, s, changed, carry) ==
    IF changed
    THEN LET fresh == NewSub(ss[s].set, ss[s].results)
             node == IF carry
                     THEN [fresh EXCEPT !.Last = ss[s].Last, !.remaining = ss[s].remaining]
                     ELSE fresh
         IN [subs |-> Append(ss, node), ret |-> Len(ss) + 1, changed |-> TRUE]
    ELSE [subs |-> ss, ret |-> s, changed |-> FALSE]

SubGetStats(ss, s) == ss[s].stats

RECURSIVE Repeat(_, _)
\* strings.Repeat
Repeat(str, n) == IF n = 0 THEN "" ELSE str \o Repeat(str, n - 1)

\* the sub-iterator's rendering, which starts at the indent it is given
SubDebugString(ss, s, indent) == Repeat(" ", indent) \o "(sub)"

\* --------------------------------------------------------- BaseIterator
ZeroOptionalIterator ==
    [tags |-> {}, Last |-> nil, nextable |-> FALSE, subIt |-> NoNode, lastCheck |-> FALSE]

BaseIteratorInit(o) == [o EXCEPT !.tags = {}, !.Last = nil, !.nextable = TRUE]

Tags(o) == o.tags

CopyTagsFrom(o, other) == [o EXCEPT !.tags = o.tags \cup Tags(other)]

AddTag(o, tag) == [o EXCEPT !.tags = o.tags \cup {tag}]

\* a []string under the verb %s
FormatTags(tags) ==
    "[" \o (IF SubTag \in tags THEN SubTag ELSE "")
        \o (IF SubTag \in tags /\ OptTag \in tags THEN " " ELSE "")
        \o (IF OptTag \in tags THEN OptTag ELSE "") \o "]"

\* ------------------------------------------------------ OptionalIterator
\* one call on sub-iterator s: the method, its argument and the boolean it
\* returned (FALSE for a method without a boolean result)
Call(s, m, arg, ret) == [sub |-> s, m |-> m, arg |-> arg, ret |-> ret]

NoRet == [ok |-> FALSE, val |-> nil, node |-> NoNode, changed |-> FALSE,
          out |-> EmptyOut, stats |-> ZeroStats, str |-> ""]

Outcome(os, ss, ret, calls, log) ==
    [opts |-> os, subs |-> ss, ret |-> ret, calls |-> calls, log |-> log]

NewOptionalIterator(it) ==
    [BaseIteratorInit(ZeroOptionalIterator) EXCEPT !.nextable = FALSE, !.subIt = it]

\* Reset that forgets to clear lastCheck
ResetKeepsLastCheck(o) ==
    Outcome(opts,
            SubReset(subs, opts[o].subIt),
            NoRet,
            <<Call(opts[o].subIt, "Reset", nil, FALSE)>>,
            <<>>)

Reset(o) ==
    Outcome([opts EXCEPT ![o].lastCheck = FALSE],
            SubReset(subs, opts[o].subIt),
            NoRet,
            <<Call(opts[o].subIt, "Reset", nil, FALSE)>>,
            <<>>)

\* Close that leaves the sub-iterator open
CloseLeavesSubOpen(o) ==
    Outcome(opts, subs, NoRet, <<>>, <<>>)

Close(o) ==
    Outcome(opts,
            SubClose(subs, opts[o].subIt),
            NoRet,
            <<Call(opts[o].subIt, "Close", nil, FALSE)>>,
            <<>>)

\* Clone that wraps the original's sub-iterator itself
CloneSharesSub(o) ==
    LET out == CopyTagsFrom(NewOptionalIterator(opts[o].subIt), opts[o])
    IN Outcome(Append(opts, out),
               subs,
               [NoRet EXCEPT !.node = Len(opts) + 1],
               <<>>,
               <<>>)

Clone(o) ==
    LET c == SubClone(subs, opts[o].subIt)
        out == CopyTagsFrom(NewOptionalIterator(c.ret), opts[o])
    IN Outcome(Append(opts, out),
               c.subs,
               [NoRet EXCEPT !.node = Len(opts) + 1],
               <<Call(opts[o].subIt, "Clone", nil, FALSE)>>,
               <<>>)

\* glog.Errorln: one line of severity ERROR; the process goes on
Errorln(msg) == [severity |-> "ERROR", msg |-> msg]

\* Next that returns the failure without reporting it
NextSilent(o) ==
    Outcome(opts, subs,
            [NoRet EXCEPT !.val = nil, !.ok = FALSE],
            <<>>,
            <<>>)

Next(o) ==
    Outcome(opts, subs,
            [NoRet EXCEPT !.val = nil, !.ok = FALSE],
            <<>>,
            <<Errorln("Nexting an un-nextable iterator")>>)

\* NextResult that asks the sub-iterator whatever lastCheck says
NextResultIgnoresLastCheck(o) ==
    LET r == SubNextResult(subs, opts[o].subIt)
    IN Outcome(opts, r.subs, [NoRet EXCEPT !.ok = r.ret],
               <<Call(opts[o].subIt, "NextResult", nil, r.ret)>>, <<>>)

\* NextResult that advances the sub-iterator but answers with lastCheck
NextResultReturnsLastCheck(o) ==
    IF opts[o].lastCheck
    THEN LET r == SubNextResult(subs, opts[o].subIt)
         IN Outcome(opts, r.subs, [NoRet EXCEPT !.ok = opts[o].lastCheck],
                    <<Call(opts[o].subIt, "NextResult", nil, r.ret)>>, <<>>)
    ELSE Outcome(opts, subs, [NoRet EXCEPT !.ok = FALSE], <<>>, <<>>)

\* NextResult with the test of lastCheck inverted
NextResultInverted(o) ==
    IF ~opts[o].lastCheck
    THEN LET r == SubNextResult(subs, opts[o].subIt)
         IN Outcome(opts, r.subs, [NoRet EXCEPT !.ok = r.ret],
                    <<Call(opts[o].subIt, "NextResult", nil, r.ret)>>, <<>>)
    ELSE Outcome(opts, subs, [NoRet EXCEPT !.ok = FALSE], <<>>, <<>>)

\* NextResult that forgets the match once the sub-iterator is exhausted
NextResultClearsOnExhaust(o) ==
    IF opts[o].lastCheck
    THEN LET r == SubNextResult(subs, opts[o].subIt)
         IN Outcome([opts EXCEPT ![o].lastCheck = r.ret], r.subs, [NoRet EXCEPT !.ok = r.ret],
                    <<Call(opts[o].subIt, "NextResult", nil, r.ret)>>, <<>>)
    ELSE Outcome(opts, subs, [NoRet EXCEPT !.ok = FALSE], <<>>, <<>>)

NextResult(o) ==
    IF opts[o].lastCheck
    THEN LET r == SubNextResult(subs, opts[o].subIt)
         IN Outcome(opts, r.subs, [NoRet EXCEPT !.ok = r.ret],
                    <<Call(opts[o].subIt, "NextResult", nil, r.ret)>>, <<>>)
    ELSE Outcome(opts, subs, [NoRet EXCEPT !.ok = FALSE], <<>>, <<>>)

\* Check that returns the sub-iterator's verdict
CheckReturnsChecked(o, val) ==
    LET r == SubCheck(subs, opts[o].subIt, val)
        checked == r.ret
    IN Outcome([opts EXCEPT ![o].lastCheck = checked, ![o].Last = val],
               r.subs,
               [NoRet EXCEPT !.ok = checked],
               <<Call(opts[o].subIt, "Check", val, r.ret)>>,
               <<>>)

\* Check that records a match whatever the sub-iterator said
CheckStoresTrue(o, val) ==
    LET r == SubCheck(subs, opts[o].subIt, val)
    IN Outcome([opts EXCEPT ![o].lastCheck = TRUE, ![o].Last = val],
               r.subs,
               [NoRet EXCEPT !.ok = TRUE],
               <<Call(opts[o].subIt, "Check", val, r.ret)>>,
               <<>>)

\* Check that records the value only when the sub-iterator matched
CheckRecordsMatchOnly(o, val) ==
    LET r == SubCheck(subs, opts[o].subIt, val)
        checked == r.ret
    IN Outcome([opts EXCEPT ![o].lastCheck = checked,
                            ![o].Last = IF checked THEN val ELSE opts[o].Last],
               r.subs,
               [NoRet EXCEPT !.ok = TRUE],
               <<Call(opts[o].subIt, "Check", val, r.ret)>>,
               <<>>)

\* Check that records a match but never takes one back
CheckKeepsStaleMatch(o, val) ==
    LET r == SubCheck(subs, opts[o].subIt, val)
        checked == r.ret
    IN Outcome([opts EXCEPT ![o].lastCheck = checked \/ opts[o].lastCheck, ![o].Last = val],
               r.subs,
               [NoRet EXCEPT !.ok = TRUE],
               <<Call(opts[o].subIt, "Check", val, r.ret)>>,
               <<>>)

Check(o, val) ==
    LET r == SubCheck(subs, opts[o].subIt, val)
        checked == r.ret
    IN Outcome([opts EXCEPT ![o].lastCheck = checked, ![o].Last = val],
               r.subs,
               [NoRet EXCEPT !.ok = TRUE],
               <<Call(opts[o].subIt, "Check", val, r.ret)>>,
               <<>>)

\* TagResults that delegates whatever lastCheck says
TagResultsIgnoresLastCheck(o, out) ==
    Outcome(opts, subs,
            [NoRet EXCEPT !.out = SubTagResults(subs, opts[o].subIt, out)],
            <<Call(opts[o].subIt, "TagResults", nil, FALSE)>>,
            <<>>)

\* TagResults that also binds the Optional's own tags to its last value
TagResultsOwnTags(o, out) ==
    IF opts[o].lastCheck = FALSE
    THEN Outcome(opts, subs, [NoRet EXCEPT !.out = out], <<>>, <<>>)
    ELSE Outcome(opts, subs,
                 [NoRet EXCEPT !.out =
                     LET sub == SubTagResults(subs, opts[o].subIt, out)
                     IN [t \in TagNames |-> IF t \in Tags(opts[o]) THEN opts[o].Last ELSE sub[t]]],
                 <<Call(opts[o].subIt, "TagResults", nil, FALSE)>>,
                 <<>>)

TagResults(o, out) ==
    IF opts[o].lastCheck = FALSE
    THEN Outcome(opts, subs, [NoRet EXCEPT !.out = out], <<>>, <<>>)
    ELSE Outcome(opts, subs,
                 [NoRet EXCEPT !.out = SubTagResults(subs, opts[o].subIt, out)],
                 <<Call(opts[o].subIt, "TagResults", nil, FALSE)>>,
                 <<>>)

\* Optimize that installs the replacement without closing the old node
OptimizeLeaksOld(o, subChanged, carry) ==
    LET old == opts[o].subIt
        r == SubOptimize(subs, old, subChanged, carry)
    IN IF r.changed
       THEN Outcome([opts EXCEPT ![o].subIt = r.ret],
                    r.subs,
                    [NoRet EXCEPT !.node = o, !.changed = FALSE],
                    <<Call(old, "Optimize", nil, r.changed)>>,
                    <<>>)
       ELSE Outcome(opts, r.subs,
                    [NoRet EXCEPT !.node = o, !.changed = FALSE],
                    <<Call(old, "Optimize", nil, r.changed)>>,
                    <<>>)

Optimize(o, subChanged, carry) ==
    LET old == opts[o].subIt
        r == SubOptimize(subs, old, subChanged, carry)
        newSub == r.ret
        changed == r.changed
    IN IF changed
       THEN Outcome([opts EXCEPT ![o].subIt = newSub],
                    SubClose(r.subs, old),
                    [NoRet EXCEPT !.node = o, !.changed = FALSE],
                    <<Call(old, "Optimize", nil, changed), Call(old, "Close", nil, FALSE)>>,
                    <<>>)
       ELSE Outcome(opts, r.subs,
                    [NoRet EXCEPT !.node = o, !.changed = FALSE],
                    <<Call(old, "Optimize", nil, changed)>>,
                    <<>>)

Type(o) == Outcome(opts, subs, [NoRet EXCEPT !.str = "optional"], <<>>, <<>>)

\* fmt.Sprintf("%s(%s tags:%s\n%s)", a, b, c, d)
Sprintf(a, b, c, d) == a \o "(" \o b \o " tags:" \o c \o "\n" \o d \o ")"

\* DebugString that renders the sub-iterator at its own indent
DebugStringFlat(o, indent) ==
    Outcome(opts, subs,
            [NoRet EXCEPT !.str = Sprintf(Repeat(" ", indent),
                                          Type(o).ret.str,
                                          FormatTags(Tags(opts[o])),
                                          SubDebugString(subs, opts[o].subIt, indent))],
            <<Call(opts[o].subIt, "DebugString", nil, FALSE)>>,
            <<>>)

DebugString(o, indent) ==
    Outcome(opts, subs,
            [NoRet EXCEPT !.str = Sprintf(Repeat(" ", indent),
                                          Type(o).ret.str,
                                          FormatTags(Tags(opts[o])),
                                          SubDebugString(subs, opts[o].subIt, indent + 4))],
            <<Call(opts[o].subIt, "DebugString", nil, FALSE)>>,
            <<>>)

\* a sentinel that is the largest int64
SentinelMaxInt64 == MaxInt64

\* int64(1 << 62)
NextCostSentinel == Shl(Small(1), 62)

\* GetStats that passes the sub-iterator's NextCost on
GetStatsSubNextCost(o) ==
    LET subStats == SubGetStats(subs, opts[o].subIt)
    IN Outcome(opts, subs,
               [NoRet EXCEPT !.stats = [CheckCost |-> subStats.CheckCost,
                                        NextCost |-> subStats.NextCost,
                                        Size |-> subStats.Size]],
               <<Call(opts[o].subIt, "GetStats", nil, FALSE)>>,
               <<>>)

GetStats(o) ==
    LET subStats == SubGetStats(subs, opts[o].subIt)
    IN Outcome(opts, subs,
               [NoRet EXCEPT !.stats = [CheckCost |-> subStats.CheckCost,
                                        NextCost |-> NextCostSentinel,
                                        Size |-> subStats.Size]],
               <<Call(opts[o].subIt, "GetStats", nil, FALSE)>>,
               <<>>)

\* ------------------------------------------------------------ the machine
OptIds == 1..Len(opts)

\* History of one Optional, read off the calls it made on its sub-iterator:
\* whether a sub-iterator Check happened since construction or Reset, its
\* value and outcome, the number of sub-iterator NextResult calls since that
\* Check (counted up to MaxResults + 1), whether Optimize replaced the
\* sub-iterator since that Check, and the number of Close calls on the
\* Optional since construction, and the sub-iterator nodes it has owned.
NoHistory == [checked |-> FALSE, outcome |-> FALSE, val |-> nil, k |-> 0, replaced |-> FALSE,
              closes |-> 0, owned |-> {}]

Made(calls, m) == {i \in 1..Len(calls) : calls[i].m = m}

History(h, op, calls, subReplaced) ==
    IF Made(calls, "Check") # {}
    THEN LET c == calls[CHOOSE i \in Made(calls, "Check") : TRUE]
         IN [checked |-> TRUE, outcome |-> c.ret, val |-> c.arg, k |-> 0, replaced |-> FALSE,
             closes |-> h.closes, owned |-> h.owned]
    ELSE IF op = "Reset"
    THEN [NoHistory EXCEPT !.closes = h.closes, !.owned = h.owned]
    ELSE [h EXCEPT !.closes = IF op = "Close" THEN h.closes + 1 ELSE h.closes,
                   !.k = IF h.k + Cardinality(Made(calls, "NextResult")) > MaxResults
                         THEN MaxResults + 1
                         ELSE h.k + Cardinality(Made(calls, "NextResult")),
                   !.replaced = h.replaced \/ subReplaced]

\* the history h of an Optional that holds sub-iterator s
Owns(h, s) == [h EXCEPT !.owned = h.owned \cup {s}]

\* One operation `op` on Optional o: the heap becomes the outcome's heap and
\* `last` records the call and what it did.
Step(op, o, arg, outIn, indent, r) ==
    /\ steps < MaxSteps
    /\ steps' = steps + 1
    /\ opts' = r.opts
    /\ subs' = r.subs
    /\ last' = [op |-> op, o |-> o, arg |-> arg, outIn |-> outIn, indent |-> indent, ret |-> r.ret,
                calls |-> r.calls, log |-> r.log]
    /\ ghost' = [p \in 1..Len(r.opts) |->
                    IF p = o
                    THEN Owns(History(ghost[o], op, r.calls, r.opts[o].subIt # opts[o].subIt),
                              r.opts[o].subIt)
                    ELSE IF p > Len(opts) THEN Owns(NoHistory, r.opts[p].subIt) ELSE ghost[p]]

NoOp == [op |-> "New", o |-> 1, arg |-> nil, outIn |-> EmptyOut, indent |-> 0, ret |-> NoRet, calls |-> <<>>, log |-> <<>>]

Init ==
        /\ subs = <<NewSub(SubSet, SubResults)>>
        /\ opts = <<NewOptionalIterator(1)>>
        /\ last = NoOp
        /\ ghost = <<Owns(NoHistory, 1)>>
        /\ steps = 0

DoCheck == \E o \in OptIds, val \in Values : Step("Check", o, val, EmptyOut, 0, Check(o, val))

DoNextResult == \E o \in OptIds : Step("NextResult", o, nil, EmptyOut, 0, NextResult(o))

DoTagResults == \E o \in OptIds, out \in Outs :
    /\ Step("TagResults", o, nil, out, 0, TagResults(o, out))

DoReset == \E o \in OptIds : Step("Reset", o, nil, EmptyOut, 0, Reset(o))

DoClose == \E o \in OptIds :
    /\ subs[opts[o].subIt].closed < MaxClose
    /\ Step("Close", o, nil, EmptyOut, 0, Close(o))

DoClone == \E o \in OptIds :
    /\ Len(opts) < MaxOpts
    /\ Len(subs) < MaxSubs
    /\ Step("Clone", o, nil, EmptyOut, 0, Clone(o))

DoNext == \E o \in OptIds :
    /\ Step("Next", o, nil, EmptyOut, 0, Next(o))

DoOptimize == \E o \in OptIds, subChanged \in BOOLEAN, carry \in BOOLEAN :
    /\ subChanged => Len(subs) < MaxSubs /\ subs[opts[o].subIt].closed < MaxClose
    /\ Step("Optimize", o, nil, EmptyOut, 0, Optimize(o, subChanged, carry))

DoGetStats == \E o \in OptIds : Step("GetStats", o, nil, EmptyOut, 0, GetStats(o))

DoType == \E o \in OptIds : Step("Type", o, nil, EmptyOut, 0, Type(o))

DoDebugString == \E o \in OptIds, indent \in 0..MaxIndent :
    Step("DebugString", o, nil, EmptyOut, indent, DebugString(o, indent))

DoAddTag == \E o \in OptIds :
    /\ OptTag \notin opts[o].tags
    /\ Step("AddTag", o, nil, EmptyOut, 0,
            Outcome([opts EXCEPT ![o] = AddTag(opts[o], OptTag)], subs, NoRet, <<>>, <<>>))

Next_ ==
    \/ DoCheck
    \/ DoNextResult
    \/ DoTagResults
    \/ DoReset
    \/ DoClose
    \/ DoClone
    \/ DoNext
    \/ DoOptimize
    \/ DoGetStats
    \/ DoAddTag
    \/ DoType
    \/ DoDebugString

Spec == Init /\ [][Next_]_vars

\* The Optional over a fixed-set membership test on {A, B} that binds "x"
\* and has one further binding set for a member.
InitScenario ==
    /\ subs = <<NewSub(SubSet, [v \in SubSet |-> 1])>>
    /\ opts = <<NewOptionalIterator(1)>>
    /\ last = NoOp
    /\ ghost = <<Owns(NoHistory, 1)>>
    /\ steps = 0

SpecScenario == InitScenario /\ [][Next_]_vars

\* Optionals over sub-iterators that report different statistics.
StatSets == {SubSet, {"C"}}

InitStats ==
    \E set \in StatSets :
        /\ subs = <<NewSub(set, [v \in set |-> IF v = "A" THEN MaxResults ELSE 0])>>
        /\ opts = <<NewOptionalIterator(1)>>
        /\ last = NoOp
        /\ ghost = <<Owns(NoHistory, 1)>>
        /\ steps = 0

SpecStats == InitStats /\ [][Next_]_vars

\* ----------------------------------------------------------------- claims
\* the Optional the last operation acted on, and its sub-iterator
Lo == last.o
LoSub == opts[Lo].subIt
\* the most recent sub-iterator Check of Optional o (since construction or
\* Reset) matched / did not match
SubMatched(o) == ghost[o].checked /\ ghost[o].outcome
SubRejected(o) == ghost[o].checked /\ ~ghost[o].outcome

\* C1: in every reachable state Check(v) returns true for every value v, and
\* every Check that was made returned true, whatever the sub-iterator's Check
\* returned.
C1_CheckAlwaysTrue ==
    /\ last.op = "Check" => last.ret.ok = TRUE
    /\ \A o \in OptIds, v \in Values : Check(o, v).ret.ok = TRUE

\* a Check returned true although the sub-iterator rejected the value, on an
\* Optional whose sub-iterator Optimize had replaced
C1_Witness ==
    /\ last.op = "Check"
    /\ last.ret.ok
    /\ last.calls[1].ret = FALSE
    /\ Cardinality(ghost[Lo].owned) > 1

\* C2: lastCheck of every Optional equals the outcome of the most recent Check
\* call it made on its sub-iterator, and is false when no such call happened
\* since construction or since the last Reset.
C2_LastCheckIsLastSubCheck ==
    \A o \in OptIds : opts[o].lastCheck = SubMatched(o)

\* lastCheck is false after a Check the sub-iterator rejected, on an Optional
\* whose previous value it had matched
C2_Witness ==
    /\ last.op = "Check"
    /\ SubRejected(Lo)
    /\ ~opts[Lo].lastCheck
    /\ subs[LoSub].remaining > 0

\* C3: a NextResult on an Optional whose most recent sub-iterator Check
\* returned false returns false, calls nothing on the sub-iterator and leaves
\* every sub-iterator and every Optional as it was.
C3_NextResultAfterFalseCheck ==
    [][(last'.op = "NextResult" /\ SubRejected(last'.o)) =>
            /\ last'.ret.ok = FALSE
            /\ last'.calls = <<>>
            /\ subs' = subs
            /\ opts' = opts]_vars

\* NextResult returned false after a rejected Check while the sub-iterator
\* still had a binding set to move to
C3_Witness ==
    /\ last.op = "NextResult"
    /\ SubRejected(Lo)
    /\ ~last.ret.ok
    /\ subs[LoSub].remaining > 0

\* C4: a NextResult on an Optional whose most recent sub-iterator Check(v)
\* returned true makes exactly one call on the sub-iterator, its NextResult,
\* returns what it returned and moves the sub-iterator as that call does; as
\* long as Optimize has not replaced the sub-iterator since the Check, the
\* k-th such call returns true exactly when the sub-iterator has a k-th
\* further binding set for v.
C4_NextResultDelegates ==
    [][(last'.op = "NextResult" /\ SubMatched(last'.o)) =>
            LET o == last'.o
                s == opts[o].subIt
                r == SubNextResult(subs, s)
            IN /\ last'.calls = <<Call(s, "NextResult", nil, r.ret)>>
               /\ last'.ret.ok = r.ret
               /\ subs' = r.subs
               /\ opts' = opts
               /\ ~ghost[o].replaced => (last'.ret.ok = (ghost[o].k < SubResults[ghost[o].val]))]_vars

\* after a matching Check the NextResult calls returned true for every
\* further binding set and then false
C4_Witness ==
    /\ last.op = "NextResult"
    /\ SubMatched(Lo)
    /\ ~ghost[Lo].replaced
    /\ SubResults[ghost[Lo].val] > 0
    /\ ghost[Lo].k = SubResults[ghost[Lo].val] + 1
    /\ ~last.ret.ok

\* C5: a TagResults on an Optional whose most recent sub-iterator Check
\* returned false, or that made no Check since construction or Reset, returns
\* the output mapping as it was given and calls nothing on the sub-iterator.
C5_TagResultsAfterFalseCheck ==
    (last.op = "TagResults" /\ ~SubMatched(Lo)) =>
        /\ last.ret.out = last.outIn
        /\ last.calls = <<>>

\* TagResults wrote nothing after a rejected Check, although the sub-iterator
\* holds the rejected value and the state of an earlier match
C5_Witness ==
    /\ last.op = "TagResults"
    /\ SubRejected(Lo)
    /\ last.ret.out = EmptyOut
    /\ subs[LoSub].Last = "C"
    /\ subs[LoSub].remaining > 0
    /\ SubTagResults(subs, LoSub, last.outIn) # last.outIn

\* C6: a TagResults on an Optional whose most recent sub-iterator Check(v)
\* returned true makes exactly one call on the sub-iterator, its TagResults,
\* and returns the mapping that call produces: every entry the sub-iterator
\* writes, and no other entry changed, in particular none for a tag of the
\* Optional itself; as long as Optimize has not replaced the sub-iterator
\* since the Check, the entries written bind the sub-iterator's tags to v.
C6_TagResultsAfterTrueCheck ==
    (last.op = "TagResults" /\ SubMatched(Lo)) =>
        /\ last.calls = <<Call(LoSub, "TagResults", nil, FALSE)>>
        /\ last.ret.out = SubTagResults(subs, LoSub, last.outIn)
        /\ \A t \in TagNames \ subs[LoSub].tags : last.ret.out[t] = last.outIn[t]
        /\ ~ghost[Lo].replaced =>
               \A t \in subs[LoSub].tags : last.ret.out[t] = ghost[Lo].val

\* TagResults after a matching Check(v) on an Optional that has a tag of its
\* own: the sub-iterator's tag is bound to v, the Optional's tag is absent
C6_Witness ==
    /\ last.op = "TagResults"
    /\ SubMatched(Lo)
    /\ OptTag \in Tags(opts[Lo])
    /\ last.outIn = EmptyOut
    /\ last.ret.out = [EmptyOut EXCEPT ![SubTag] = ghost[Lo].val]
    /\ opts[Lo].Last = ghost[Lo].val

\* C7: Reset makes one call on the sub-iterator, its Reset, and leaves
\* lastCheck false; a NextResult made after a Reset and before any Check
\* returns false without a call on the sub-iterator, and a TagResults made
\* in that window returns the mapping unchanged without a call on it.
C7_ResetClearsLastCheck ==
    /\ last.op = "Reset" =>
            /\ opts[Lo].lastCheck = FALSE
            /\ last.calls = <<Call(LoSub, "Reset", nil, FALSE)>>
            /\ subs[LoSub].remaining = 0
    /\ (last.op = "NextResult" /\ ~ghost[Lo].checked) =>
            /\ last.ret.ok = FALSE
            /\ last.calls = <<>>
    /\ (last.op = "TagResults" /\ ~ghost[Lo].checked) =>
            /\ last.ret.out = last.outIn
            /\ last.calls = <<>>

\* NextResult returned false after a Reset that followed a matching Check
\* (the Optional still holds the matched value, the sub-iterator is reset)
C7_Witness ==
    /\ last.op = "NextResult"
    /\ ~ghost[Lo].checked
    /\ opts[Lo].Last \in SubSet
    /\ subs[LoSub].Last = nil
    /\ ~last.ret.ok

\* C8: Clone returns a new Optional whose sub-iterator is a new node made by
\* the original sub-iterator's Clone, whose tags are the original's and whose
\* lastCheck is false; no two Optionals share a sub-iterator, and an
\* operation on one Optional leaves every other Optional and the
\* sub-iterator of every other Optional as they were.
C8_CloneIsIndependent ==
    [][/\ last'.op = "Clone" =>
            LET o == last'.o
                c == last'.ret.node
            IN /\ c = Len(opts) + 1
               /\ Len(opts') = c
               /\ last'.calls = <<Call(opts[o].subIt, "Clone", nil, FALSE)>>
               /\ opts'[c].subIt = Len(subs) + 1
               /\ Len(subs') = Len(subs) + 1
               /\ opts'[c].tags = opts[o].tags
               /\ opts'[c].lastCheck = FALSE
               /\ opts'[c].Last = nil
       /\ \A p \in 1..Len(opts'), q \in 1..Len(opts') :
            p # q => opts'[p].subIt # opts'[q].subIt
       /\ \A p \in OptIds :
            p # last'.o => /\ opts'[p] = opts[p]
                           /\ subs'[opts[p].subIt] = subs[opts[p].subIt]]_vars

\* a clone with lastCheck false made from an Optional whose lastCheck is
\* true and which has a tag, the clone having the tag too
C8_Witness ==
    /\ last.op = "Clone"
    /\ opts[Lo].lastCheck
    /\ ~opts[last.ret.node].lastCheck
    /\ OptTag \in Tags(opts[last.ret.node])
    /\ opts[last.ret.node].subIt # opts[Lo].subIt

\* C9: Optimize returns the Optional itself with changed = false; it makes
\* one Optimize call on the sub-iterator; when that call reports a change
\* the Optional then closes the old sub-iterator once and the returned node
\* is its sub-iterator, and when it reports none the Optional makes no other
\* call and keeps its sub-iterator.
C9_OptimizeKeepsOptional ==
    [][last'.op = "Optimize" =>
            LET o == last'.o
                old == opts[o].subIt
                subChanged == last'.calls[1].ret
                r == SubOptimize(subs, old, subChanged, FALSE)
            IN /\ last'.ret.node = o
               /\ last'.ret.changed = FALSE
               /\ last'.calls[1] = Call(old, "Optimize", nil, subChanged)
               /\ IF subChanged
                  THEN /\ last'.calls = <<last'.calls[1], Call(old, "Close", nil, FALSE)>>
                       /\ opts'[o].subIt = r.ret
                       /\ opts'[o].subIt # old
                       /\ subs'[old].closed = subs[old].closed + 1
                  ELSE /\ last'.calls = <<last'.calls[1]>>
                       /\ opts'[o].subIt = old
                       /\ subs' = subs]_vars

\* an Optimize whose sub-iterator reported a change: the Optional returned
\* itself unchanged, closed the old node and holds the new one
C9_Witness ==
    /\ last.op = "Optimize"
    /\ last.calls[1].ret
    /\ last.ret.node = Lo
    /\ ~last.ret.changed
    /\ LoSub # last.calls[1].sub
    /\ subs[last.calls[1].sub].closed = 1
    /\ subs[LoSub].closed = 0

\* C10: Next returns (nil, false), writes exactly one line to the error log,
\* of a severity that lets the process go on, makes no call on the
\* sub-iterator and changes no iterator; no other operation writes to the
\* error log.
C10_NextReportsMisuse ==
    [][/\ last'.op = "Next" =>
            /\ last'.ret.val = nil
            /\ last'.ret.ok = FALSE
            /\ Len(last'.log) = 1
            /\ last'.log[1].severity = "ERROR"
            /\ last'.calls = <<>>
            /\ opts' = opts
            /\ subs' = subs
       /\ last'.op # "Next" => last'.log = <<>>]_vars

\* a Next on an Optional whose lastCheck is true reported the misuse
C10_Witness ==
    /\ last.op = "Next"
    /\ opts[Lo].lastCheck
    /\ Len(last.log) = 1
    /\ ~last.ret.ok

\* C11: GetStats makes one call on the sub-iterator, its GetStats, and
\* returns its CheckCost and its Size together with a NextCost that is 2^62
\* whatever NextCost the sub-iterator reports.
C11_GetStats ==
    last.op = "GetStats" =>
        /\ last.calls = <<Call(LoSub, "GetStats", nil, FALSE)>>
        /\ last.ret.stats.CheckCost = subs[LoSub].stats.CheckCost
        /\ last.ret.stats.Size = subs[LoSub].stats.Size
        /\ last.ret.stats.NextCost = Int64(Limb \div 2, 0, 0)

\* GetStats over a sub-iterator whose NextCost is not the sentinel and whose
\* CheckCost and Size came through
C11_Witness ==
    /\ last.op = "GetStats"
    /\ subs[LoSub].stats.NextCost = MaxInt64
    /\ last.ret.stats.NextCost # subs[LoSub].stats.NextCost
    /\ last.ret.stats.CheckCost = Small(3)
    /\ last.ret.stats.Size = Small(1)

\* C12 as stated: the NextCost GetStats returns is the largest int64, and
\* the sub-iterator's NextCost is never greater than it.
C12_SentinelIsMaxInt64 ==
    last.op = "GetStats" =>
        /\ last.ret.stats.NextCost = MaxInt64
        /\ ~Lt(last.ret.stats.NextCost, subs[LoSub].stats.NextCost)

\* C12 amended: the NextCost GetStats returns is 2^62, the value whose
\* double no longer fits the 63 value bits of an int64; it is below the
\* largest int64, 2^63 - 1, and exactly the sub-iterators that report a
\* NextCost of at most 2^62 cannot exceed it.
C12_SentinelIsPow62 ==
    last.op = "GetStats" =>
        LET c == last.ret.stats.NextCost
        IN /\ c = Int64(Limb \div 2, 0, 0)
           /\ Double(c) = Small(0)
           /\ Lt(c, MaxInt64)
           /\ Lt(c, subs[LoSub].stats.NextCost) = (subs[LoSub].stats.NextCost[1] >= Limb \div 2
                                                   /\ subs[LoSub].stats.NextCost # c)

\* GetStats over a sub-iterator that reports a NextCost greater than the
\* sentinel
C12_Witness ==
    /\ last.op = "GetStats"
    /\ Lt(last.ret.stats.NextCost, subs[LoSub].stats.NextCost)

\* C13: over the fixed-set sub-iterator on {A, B} that binds "x": Check(A)
\* returns true and leaves lastCheck true, the first NextResult after it
\* returns true and every later one false, and TagResults on an empty
\* mapping yields {"x": A} (no Optimize having replaced the sub-iterator
\* after the Check); Check(C) returns true and leaves lastCheck false,
\* NextResult after it returns false and TagResults on an empty mapping
\* yields the empty mapping.
C13_Scenario ==
    /\ (last.op = "Check" /\ last.arg = "A") =>
            last.ret.ok /\ opts[Lo].lastCheck
    /\ (last.op = "NextResult" /\ ghost[Lo].val = "A" /\ ~ghost[Lo].replaced) =>
            last.ret.ok = (ghost[Lo].k = 1)
    /\ (last.op = "TagResults" /\ ghost[Lo].val = "A" /\ ~ghost[Lo].replaced
            /\ last.outIn = EmptyOut) =>
            last.ret.out = [EmptyOut EXCEPT ![SubTag] = "A"]
    /\ (last.op = "Check" /\ last.arg = "C") =>
            last.ret.ok /\ ~opts[Lo].lastCheck
    /\ (last.op = "NextResult" /\ ghost[Lo].val = "C") =>
            ~last.ret.ok /\ last.calls = <<>>
    /\ (last.op = "TagResults" /\ ghost[Lo].val = "C" /\ last.outIn = EmptyOut) =>
            last.ret.out = EmptyOut

\* after Check(A) the second NextResult returned false (the first returned
\* true)
C13_Witness ==
    /\ last.op = "NextResult"
    /\ ghost[Lo].val = "A"
    /\ ghost[Lo].k = 2
    /\ ~ghost[Lo].replaced
    /\ ~last.ret.ok
    /\ opts[Lo].lastCheck

\* C14: every Check(v) makes exactly one call on the sub-iterator, its
\* Check with the same v, and leaves the Optional's Last equal to v whether
\* the sub-iterator matched or not.
C14_CheckRecordsValue ==
    [][last'.op = "Check" =>
            LET o == last'.o
                s == opts[o].subIt
            IN /\ last'.calls = <<Call(s, "Check", last'.arg, SubCheck(subs, s, last'.arg).ret)>>
               /\ opts'[o].Last = last'.arg
               /\ opts'[o].subIt = s]_vars

\* a Check the sub-iterator rejected left the rejected value in Last, on an
\* Optional that held a matched value before
C14_Witness ==
    /\ last.op = "Check"
    /\ last.arg = "C"
    /\ ~last.calls[1].ret
    /\ opts[Lo].Last = "C"
    /\ subs[LoSub].remaining > 0

\* C15: Optimize does not change what Check, NextResult and TagResults
\* return afterwards: a Check matches exactly the sub-iterator's set, and
\* after a matching Check(v), with or without an Optimize in between, the
\* k-th NextResult returns true exactly when the sub-iterator has a k-th
\* further binding set for v and TagResults binds the sub-iterator's tags
\* to v.
C15_OptimizePreservesResults ==
    /\ last.op = "Check" =>
            last.ret.ok /\ (opts[Lo].lastCheck = (last.arg \in SubSet))
    /\ (last.op = "NextResult" /\ SubMatched(Lo)) =>
            last.ret.ok = (ghost[Lo].k <= SubResults[ghost[Lo].val])
    /\ (last.op = "TagResults" /\ SubMatched(Lo)) =>
            last.ret.out = [last.outIn EXCEPT ![SubTag] = ghost[Lo].val]

\* C16: the Optional calls only the node that is its sub-iterator at the
\* time, so a node Optimize discarded gets no further call and stays as it
\* is, as does every node of another Optional; as long as an Optional was
\* not closed, every node it discarded has been closed exactly once and its
\* current one not at all; and right after the first Close on an Optional
\* every node it ever owned, the one from construction or Clone and every
\* replacement, has been closed exactly once.
C16_OwnedSubsClosedOnce ==
    [][LET o == last'.o
           cur == opts[o].subIt
       IN /\ \A i \in 1..Len(last'.calls) : last'.calls[i].sub = cur
          /\ \A s \in 1..Len(subs) : s # cur => subs'[s] = subs[s]
          /\ \A p \in 1..Len(opts') :
                ghost'[p].closes = 0 =>
                    \A s \in ghost'[p].owned :
                        subs'[s].closed = IF s = opts'[p].subIt THEN 0 ELSE 1
          /\ (last'.op = "Close" /\ ghost'[o].closes = 1) =>
                \A s \in ghost'[o].owned : subs'[s].closed = 1]_vars

\* one Close after an Optimize that replaced the sub-iterator: the discarded
\* node and the current node are each closed once
C16_Witness ==
    /\ last.op = "Close"
    /\ ghost[Lo].closes = 1
    /\ Cardinality(ghost[Lo].owned) > 1
    /\ \A s \in ghost[Lo].owned : subs[s].closed = 1

\* C17: an Optional that made no Check since construction or since its last
\* Reset holds no value in Last.
C17_NoLastValueBeforeCheck ==
    \A o \in OptIds : ~ghost[o].checked => opts[o].Last = nil

\* C18: only Check and Reset write lastCheck, and only Check writes Last:
\* every other operation, Clone on the original included, leaves lastCheck
\* and Last of every Optional as they were; so a TagResults after a matching
\* Check calls the sub-iterator's TagResults also when NextResult has
\* returned false and when the Optional was closed.
C18_OnlyCheckAndResetWrite ==
    [][/\ last'.op \notin {"Check", "Reset"} =>
            \A o \in OptIds : /\ opts'[o].lastCheck = opts[o].lastCheck
                              /\ opts'[o].Last = opts[o].Last
       /\ last'.op = "Reset" => \A o \in OptIds : opts'[o].Last = opts[o].Last
       /\ last'.op = "Clone" => subs'[opts[last'.o].subIt] = subs[opts[last'.o].subIt]
       /\ (last'.op = "TagResults" /\ SubMatched(last'.o)) =>
            last'.calls = <<Call(opts[last'.o].subIt, "TagResults", nil, FALSE)>>]_vars

\* TagResults delegated after a matching Check although NextResult had
\* returned false and the Optional had been closed
C18_Witness ==
    /\ last.op = "TagResults"
    /\ SubMatched(Lo)
    /\ ~ghost[Lo].replaced
    /\ ghost[Lo].k > SubResults[ghost[Lo].val]
    /\ ghost[Lo].closes > 0
    /\ last.calls = <<Call(LoSub, "TagResults", nil, FALSE)>>
    /\ last.ret.out[SubTag] = ghost[Lo].val

\* C19: a Check the sub-iterator rejects returns true and leaves lastCheck
\* false; of the operations that return a success flag Check never returns
\* false, Next always does, and NextResult may.
C19_NoMatchIsNoFailure ==
    /\ (last.op = "Check" /\ ~last.calls[1].ret) =>
            last.ret.ok /\ ~opts[Lo].lastCheck
    /\ (last.op \in {"Check", "Next", "NextResult"} /\ ~last.ret.ok) =>
            last.op \in {"Next", "NextResult"}
    /\ last.op = "Next" => ~last.ret.ok

\* a rejected Check right after a match returned true and took the match
\* back
C19_Witness ==
    /\ last.op = "Check"
    /\ ~last.calls[1].ret
    /\ last.ret.ok
    /\ ~opts[Lo].lastCheck
    /\ subs[LoSub].remaining = MaxResults
    /\ subs[LoSub].closed = 0

\* C20 as stated: Type returns "optional" and DebugString(indent) is
\* `optional(tags:<tagset>`, a newline, the sub-iterator's DebugString at
\* indent + 4 and `)`.
C20_DebugStringAsStated ==
    /\ last.op = "Type" => last.ret.str = "optional"
    /\ last.op = "DebugString" =>
            last.ret.str = "optional(tags:" \o FormatTags(Tags(opts[Lo])) \o "\n"
                           \o SubDebugString(subs, LoSub, last.indent + 4) \o ")"

\* C20 amended: Type returns "optional" and DebugString(indent) is indent
\* spaces, `(optional tags:<tagset>`, a newline, the sub-iterator's
\* DebugString at indent + 4 and `)`; it makes one call on the sub-iterator,
\* its DebugString.
C20_DebugString ==
    /\ last.op = "Type" => last.ret.str = "optional" /\ last.calls = <<>>
    /\ last.op = "DebugString" =>
            /\ last.ret.str = Repeat(" ", last.indent) \o "(optional tags:"
                              \o FormatTags(Tags(opts[Lo])) \o "\n"
                              \o Repeat(" ", last.indent + 4) \o "(sub))"
            /\ last.calls = <<Call(LoSub, "DebugString", nil, FALSE)>>
    /\ (last.op = "DebugString" /\ last.indent = 0 /\ Tags(opts[Lo]) = {}) =>
            last.ret.str = "(optional tags:[]\n    (sub))"
    /\ (last.op = "DebugString" /\ last.indent = 1 /\ Tags(opts[Lo]) = {OptTag}) =>
            last.ret.str = " (optional tags:[y]\n     (sub))"

\* DebugString at indent 1 of an Optional that has a tag
C20_Witness ==
    /\ last.op = "DebugString"
    /\ last.indent = 1
    /\ Tags(opts[Lo]) = {OptTag}
    /\ last.ret.str = " (optional tags:[y]\n     (sub))"

====
